---- MODULE Spec2Model ----
(***************************************************************************)
(* Model of the pod monitor controller                                     *)
(* (monitoring-go-controller/main.go): PodMonitor.Start, the signal        *)
(* goroutine it spawns, PodMonitor.watchPods with its retry/backoff, and   *)
(* the Kubernetes API it talks to (the Pods of the watched namespace, the  *)
(* List call, the Watch registration and the watch result channel).        *)
(***************************************************************************)
EXTENDS Integers, Sequences, FiniteSets, TLC

\* ------------------------------------------------------------------ bounds

\* Events the API server may have put on a watch stream and the consumer
\* has not received yet (beyond the initial burst of a registration).
MaxQueue == 1

\* Cap of the watcherReconnects counter (total channel closures of a run)
\* under Spec, where the whole cluster is modelled.
MaxReconnects == 1

\* The same cap under SpecRetry and SpecAnswered, where the cluster is one
\* Pod and the runs are long enough to pass the retry ceiling.
MaxClosures == 11

\* getChangeReason examined on its own: the longest ContainerStatuses and
\* Conditions lists of its two arguments, and the highest restart count.
MaxContainers == 2

MaxConditions == 2

MaxRestarts == 1

\* logEvent examined step by step: the lines the log may hold for another
\* call to begin.
MaxLog == 4

\* ------------------------------------------------------- program constants

\* NewPodMonitor: maxRetries: 10
maxRetries == 10

\* ---------------------------------------------------------------- domains

UIDs == {"u1", "u2"}

Phases == {"Pending", "Running"}

\* metadata.name of the Pod with a given UID: u1 and u2 are the Pod p1 and
\* the Pod p1 recreated under a new UID (any further UID is a Pod p2).
NameOf(u) == IF u \in {"u1", "u2"} THEN "p1" ELSE "p2"

\* A *corev1.Pod, reduced to what this controller reads of it.
Pod(u, ph) == [kind |-> "Pod", uid |-> u, name |-> NameOf(u), phase |-> ph]

Pods == {Pod(u, ph) : u \in UIDs, ph \in Phases}

\* The object of a watch.Error event (*metav1.Status), and an object of a
\* type watchPods does not expect.
StatusObj == [kind |-> "Status"]

OtherObj == [kind |-> "Other"]

\* watch.EventType values a result channel can carry.
PodEventTypes == {"ADDED", "MODIFIED", "DELETED"}

Event(t, o) == [type |-> t, object |-> o]

\* The zero watch.Event: before any receive, and what a receive from a
\* closed channel returns.
NoEvent == [type |-> "", object |-> [kind |-> "nil"]]

\* getChangeReason's arguments before a call, and its reasons slice and
\* result before it returned.
NoPod == [kind |-> "nil"]

NotCalled == [reasons |-> <<>>, result |-> ""]

\* corev1.ContainerStatus as getChangeReason reads it: the container app in
\* every readiness and restart count, and a second container db.
ContainerStatuses ==
    {c \in [Name : {"app", "db"}, Ready : BOOLEAN,
            RestartCount : 0..MaxRestarts] :
        c.Name = "db" => (c.Ready /\ c.RestartCount = 0)}

\* corev1.PodCondition as getChangeReason reads it.
PodConditions ==
    {c \in [Type : {"Ready", "PodScheduled"}, Status : {"True", "False"}] :
        c.Type = "PodScheduled" => c.Status = "True"}

\* The sequences over S of length at most n.
SeqsUpTo(S, n) == UNION {[1..k -> S] : k \in 0..n}

\* The status of a *corev1.Pod as getChangeReason reads it; a condition
\* list may hold two conditions of one type.
ReasonPods ==
    [Phase : Phases,
     ContainerStatuses : SeqsUpTo(ContainerStatuses, MaxContainers),
     Conditions : SeqsUpTo(PodConditions, MaxConditions)]

\* -------------------------------------------------------------------- state

VARIABLES
    pc,                \* where the consumer (main -> Start -> watchPods) is
    err,               \* the error Start returned to main
    exit,              \* the process's exit: "running", "clean", "fatal"
    sigpc,             \* the signal goroutine of Start
    retryCount,        \* pm.retryCount
    watcherReconnects, \* the watcherReconnects counter
    existingPods,      \* watchPods' local map, UID -> *corev1.Pod
    cluster,           \* the Pods of the namespace in the API server
    watchOpen,         \* the innermost watcher's stream is open at the server
    stream,            \* events sent on the innermost watcher, not received
    unstopped,         \* watchers created and not yet Stop()ped
    backoffDuration,   \* seconds of the time.Sleep in progress
    slept,             \* seconds of it that have passed
    event,             \* watchPods' event: what the last receive returned
    retryBefore,       \* history: pm.retryCount when event was received
    closuresSinceSuccess, \* history: closures since the last Pod notification
    sigAt,             \* history: the signal came at startup, in a session
                       \* or in a backoff sleep
    metricsServer,     \* startMetricsServer has run
    podTracker,        \* pm.podTracker, Pod name -> phase
    activePods,        \* the activePods gauges that were set, phase -> value
    trackedUID,        \* history: the UID of the Pod whose event wrote the
                       \* podTracker entry of a name
    oldPod,            \* getChangeReason's arguments and result, when the
    newPod,            \* function is examined on its own
    reason,
    logged,            \* the lines logEvent wrote to the log, oldest first;
                       \* watchPods keeps those of the notification it
                       \* processed last
    podEventsTotal,    \* the podEventsTotal counter, labels -> value, counted
                       \* from the moment the first line of logged was due
    envNamespace,      \* the value of the environment variable NAMESPACE
    args,              \* os.Args[1:]
    namespace,         \* pm.namespace
    emitpc,            \* where logEvent is, when it is examined step by step
    emitting,          \* its argument event
    trackerMutex       \* the tasks that hold pm.trackerMutex

\* The monitor, the signal goroutine and the cluster.
monitorVars == <<pc, err, exit, sigpc, retryCount, watcherReconnects,
                 existingPods, cluster, watchOpen, stream, unstopped,
                 backoffDuration, slept, event, retryBefore,
                 closuresSinceSuccess, sigAt, metricsServer>>

\* pm.podTracker and the gauges computed from it.
trackerVars == <<podTracker, activePods, trackedUID>>

\* One call of getChangeReason.
reasonVars == <<oldPod, newPod, reason>>

\* What main read of the process's environment and arguments.
configVars == <<envNamespace, args, namespace>>

\* One call of logEvent, step by step.
emitVars == <<emitpc, emitting, trackerMutex>>

vars == <<pc, err, exit, sigpc, retryCount, watcherReconnects, existingPods,
          cluster, watchOpen, stream, unstopped, backoffDuration, slept,
          event, retryBefore, closuresSinceSuccess, sigAt, metricsServer,
          trackerVars, reasonVars, logged, podEventsTotal, configVars,
          emitVars>>

\* close(pm.stopCh) has run; cancel() has run.
stopChClosed == sigpc \in {"closed", "cancelled"}

ctxCancelled == sigpc = "cancelled"

\* A map as a function on the set of its keys.
EmptyMap == [u \in {} |-> Pod(u, "Pending")]

MapPut(m, k, v) == [x \in (DOMAIN m) \cup {k} |-> IF x = k THEN v ELSE m[x]]

MapDelete(m, k) == [x \in (DOMAIN m) \ {k} |-> m[x]]

\* Every order in which the elements of a finite set can be sent.
SeqsOf(S) ==
    {s \in [1..Cardinality(S) -> S] : \A i, j \in 1..Cardinality(S) : s[i] = s[j] => i = j}

\* ------------------------------------------------------------ pure helpers

\* main: a nil error and context.Canceled itself ("canceled", what ctx.Err()
\* returns) end the process cleanly ("Pod monitor stopped gracefully"), any
\* other error goes to log.Fatalf.
ExitCode(e) == IF e \in {"nil", "canceled"} THEN "clean" ELSE "fatal"

\* Variant: the counter stepped down by one instead of reset.
RetryAfterEvent_Decrement(rc, ev) == IF rc > 0 THEN rc - 1 ELSE 0

\* Variant: the reset left out.
RetryAfterEvent_NoReset(rc, ev) == rc

\* watchPods: "Reset retry count on successful event": pm.retryCount = 0,
\* executed for every event the channel delivered, before its type is read.
RetryAfterEvent(rc, ev) == 0

\* watchPods: if pm.retryCount >= pm.maxRetries
CeilingReached(rc) == rc >= maxRetries

\* Variant: exponential backoff, 2^retryCount seconds.
BackoffSeconds_Exponential(rc) == 2 ^ rc

\* watchPods: time.Duration(pm.retryCount*pm.retryCount) * time.Second
BackoffSeconds(rc) == rc * rc

\* watchPods, case watch.Added: insert only if the UID is not in the map.
OnAdded(m, pod) == IF pod.uid \in DOMAIN m THEN m ELSE MapPut(m, pod.uid, pod)

\* Variant: the entry deleted under the Pod's name, as logEvent does for
\* podTracker, in a map keyed by UID.
OnDeleted_ByName(m, pod) == MapDelete(m, pod.name)

\* watchPods, case watch.Deleted: delete(existingPods, string(pod.UID)).
OnDeleted(m, pod) == MapDelete(m, pod.uid)

\* Variant: the stored object kept when the UID is in the map.
OnModified_KeepFirst(m, pod) ==
    IF pod.uid \in DOMAIN m THEN m ELSE MapPut(m, pod.uid, pod)

\* watchPods, case watch.Modified: both branches store the new object.
OnModified(m, pod) == MapPut(m, pod.uid, pod)

\* watchPods: what one received event does to existingPods: a watch.Error
\* event and an object that is not a *corev1.Pod are skipped (continue).
HandleEvent(m, ev) ==
    IF ev.type = "ERROR" THEN m
    ELSE IF ev.object.kind # "Pod" THEN m
    ELSE CASE ev.type = "ADDED"    -> OnAdded(m, ev.object)
           [] ev.type = "DELETED"  -> OnDeleted(m, ev.object)
           [] ev.type = "MODIFIED" -> OnModified(m, ev.object)
           [] OTHER                -> m

\* An ADDED, MODIFIED or DELETED notification that carries a Pod.
IsPodNotification(ev) == ev.type \in PodEventTypes /\ ev.object.kind = "Pod"

\* Variant: a DELETED goes to logEvent only for a UID in existingPods.
Emits_KnownDeleted(m, ev) ==
    /\ IsPodNotification(ev)
    /\ ev.type = "ADDED" => ev.object.uid \notin DOMAIN m
    /\ ev.type = "DELETED" => ev.object.uid \in DOMAIN m

\* Variant: every ADDED of a Pod goes to logEvent, known UID or not.
Emits_EveryAdded(m, ev) == IsPodNotification(ev)

\* watchPods: the received event makes it call logEvent: a DELETED or
\* MODIFIED of a Pod always, an ADDED only for a UID not in existingPods.
Emits(m, ev) ==
    /\ IsPodNotification(ev)
    /\ ev.type = "ADDED" => ev.object.uid \notin DOMAIN m

\* watchPods: the PodEvent built from the received event, its Message and
\* Reason not set yet. (Namespace, NodeName, PodIP, Labels and Timestamp
\* are copied from the Pod and the clock and read by nothing but the
\* encoder.)
PodEventOf(ev) ==
    [EventType |-> ev.type, PodName |-> ev.object.name,
     Phase |-> ev.object.phase, Message |-> "", Reason |-> ""]

\* logEvent: delete(pm.podTracker, event.PodName) for a DELETED event,
\* pm.podTracker[event.PodName] = event.Phase for any other.
TrackerAfter(t, pe) ==
    IF pe.EventType = "DELETED" THEN MapDelete(t, pe.PodName)
                                ELSE MapPut(t, pe.PodName, pe.Phase)

\* updateActivePods: phaseCounts, the number of podTracker entries of each
\* phase that has an entry.
PhaseCounts(t) ==
    [ph \in {t[n] : n \in DOMAIN t} |->
        Cardinality({n \in DOMAIN t : t[n] = ph})]

\* Variant: Add(count) in place of Set(count).
updateActivePods_AddCount(g, t) ==
    [ph \in (DOMAIN g) \cup DOMAIN PhaseCounts(t) |->
        IF ph \in DOMAIN PhaseCounts(t)
        THEN (IF ph \in DOMAIN g THEN g[ph] ELSE 0) + PhaseCounts(t)[ph]
        ELSE g[ph]]

\* updateActivePods: Set(count) on the gauge of every phase in phaseCounts;
\* the gauge of any other phase keeps its value.
updateActivePods(g, t) ==
    [ph \in (DOMAIN g) \cup DOMAIN PhaseCounts(t) |->
        IF ph \in DOMAIN PhaseCounts(t) THEN PhaseCounts(t)[ph] ELSE g[ph]]

\* What a scrape reads of the gauge of a phase: a gauge never set has no
\* series, which counts as 0 Pods.
GaugeValue(g, ph) == IF ph \in DOMAIN g THEN g[ph] ELSE 0

\* The number of podTracker entries of a phase.
TrackedIn(t, ph) == Cardinality({n \in DOMAIN t : t[n] = ph})

\* -------------------------------------------------------- getChangeReason

\* fmt.Sprintf's %v of a bool and %d of an int32.
FormatBool(b) == IF b THEN "true" ELSE "false"

FormatInt(n) == ToString(n)

PhaseMessage(old, new) == "Phase changed from " \o old \o " to " \o new

ReadinessMessage(name, ready) ==
    "Container " \o name \o " readiness changed to " \o FormatBool(ready)

RestartMessage(name, count) ==
    "Container " \o name \o " restart count changed to " \o FormatInt(count)

ConditionChangedMessage(type, status) ==
    "Condition " \o type \o " changed to " \o status

NewConditionMessage(type, status) ==
    "New condition " \o type \o ": " \o status

Fallback == "Metadata or spec updated"

\* getChangeReason, "Check phase changes".
PhaseReasons(old, new) ==
    IF old.Phase # new.Phase THEN <<PhaseMessage(old.Phase, new.Phase)>>
                             ELSE <<>>

\* Variant: the message names the old list's container.
ContainerReasonsAt_OldName(old, new, i) ==
    IF i <= Len(old)
    THEN LET container == new[i]
             oldContainer == old[i]
         IN (IF container.Ready # oldContainer.Ready
             THEN <<ReadinessMessage(oldContainer.Name, container.Ready)>>
             ELSE <<>>)
            \o
            (IF container.RestartCount # oldContainer.RestartCount
             THEN <<RestartMessage(oldContainer.Name, container.RestartCount)>>
             ELSE <<>>)
    ELSE <<>>

\* getChangeReason, "Check container status changes", one pass of the loop:
\* Go's index i is i - 1 here, i < len(old) is i <= Len(old).
ContainerReasonsAt(old, new, i) ==
    IF i <= Len(old)
    THEN LET container == new[i]
             oldContainer == old[i]
         IN (IF container.Ready # oldContainer.Ready
             THEN <<ReadinessMessage(container.Name, container.Ready)>>
             ELSE <<>>)
            \o
            (IF container.RestartCount # oldContainer.RestartCount
             THEN <<RestartMessage(container.Name, container.RestartCount)>>
             ELSE <<>>)
    ELSE <<>>

\* The loop over newPod.Status.ContainerStatuses, from index i on.
RECURSIVE ContainerReasons(_, _, _)
ContainerReasons(old, new, i) ==
    IF i > Len(new) THEN <<>>
    ELSE ContainerReasonsAt(old, new, i) \o ContainerReasons(old, new, i + 1)

\* Variant: any old condition of the type with the same status counts as
\* no change.
ConditionReasonFrom_AnyMatch(oldConditions, condition, j) ==
    IF \A k \in j..Len(oldConditions) :
          oldConditions[k].Type # condition.Type
    THEN <<NewConditionMessage(condition.Type, condition.Status)>>
    ELSE IF \E k \in j..Len(oldConditions) : oldConditions[k] = condition
         THEN <<>>
         ELSE <<ConditionChangedMessage(condition.Type, condition.Status)>>

\* Variant: no break, the last old condition of the type decides.
ConditionReasonFrom_LastMatch(oldConditions, condition, j) ==
    LET same == {k \in j..Len(oldConditions) :
                    oldConditions[k].Type = condition.Type}
        last == CHOOSE k \in same : \A l \in same : l <= k
    IN IF same = {}
       THEN <<NewConditionMessage(condition.Type, condition.Status)>>
       ELSE IF oldConditions[last].Status # condition.Status
            THEN <<ConditionChangedMessage(condition.Type, condition.Status)>>
            ELSE <<>>

\* getChangeReason, "Check condition changes", the inner loop from index j
\* on: the first old condition of the type decides (break).
RECURSIVE ConditionReasonFrom(_, _, _)
ConditionReasonFrom(oldConditions, condition, j) ==
    IF j > Len(oldConditions)
    THEN <<NewConditionMessage(condition.Type, condition.Status)>>
    ELSE IF condition.Type = oldConditions[j].Type
         THEN IF condition.Status # oldConditions[j].Status
              THEN <<ConditionChangedMessage(condition.Type, condition.Status)>>
              ELSE <<>>
         ELSE ConditionReasonFrom(oldConditions, condition, j + 1)

\* The loop over newPod.Status.Conditions, from index i on.
RECURSIVE ConditionReasons(_, _, _)
ConditionReasons(oldConditions, newConditions, i) ==
    IF i > Len(newConditions) THEN <<>>
    ELSE ConditionReasonFrom(oldConditions, newConditions[i], 1)
         \o ConditionReasons(oldConditions, newConditions, i + 1)

\* Variant: the conditions checked before the containers.
ReasonsOf_ConditionsFirst(old, new) ==
    PhaseReasons(old, new)
    \o ConditionReasons(old.Conditions, new.Conditions, 1)
    \o ContainerReasons(old.ContainerStatuses, new.ContainerStatuses, 1)

\* getChangeReason: the reasons slice when the three checks are done.
ReasonsOf(old, new) ==
    PhaseReasons(old, new)
    \o ContainerReasons(old.ContainerStatuses, new.ContainerStatuses, 1)
    \o ConditionReasons(old.Conditions, new.Conditions, 1)

\* strings.Join(reasons, sep) of a slice that is not empty.
RECURSIVE Join(_, _)
Join(elems, sep) ==
    IF Len(elems) = 1 THEN elems[1]
    ELSE elems[1] \o sep \o Join(Tail(elems), sep)

\* getChangeReason(oldPod, newPod).
getChangeReason(old, new) ==
    IF Len(ReasonsOf(old, new)) = 0 THEN Fallback
    ELSE Join(ReasonsOf(old, new), "; ")

\* ------------------------------------------------------- lifecycle events

\* The status of a Pod of the cluster as getChangeReason reads it: the Pods
\* of the cluster differ in their phase only.
StatusOf(pod) ==
    [Phase |-> pod.phase, ContainerStatuses |-> <<>>, Conditions |-> <<>>]

\* Variant: the reason computed after the new object was stored.
EmittedEvent_ReasonAfterStore(m, ev) ==
    LET podEvent == PodEventOf(ev)
        pod == ev.object
    IN CASE ev.type = "ADDED" ->
              [podEvent EXCEPT !.Message = "New pod created"]
         [] ev.type = "DELETED" ->
              [podEvent EXCEPT !.Message = "Pod deleted"]
         [] ev.type = "MODIFIED" ->
              IF pod.uid \in DOMAIN m
              THEN [podEvent EXCEPT
                      !.Reason = getChangeReason(StatusOf(pod), StatusOf(pod)),
                      !.Message = "Pod updated"]
              ELSE [podEvent EXCEPT
                      !.Message = "New pod detected during watch"]

\* watchPods, switch event.Type: the PodEvent handed to logEvent. A
\* MODIFIED of a UID in existingPods gets the reason of the change from the
\* stored object to the new one; a MODIFIED of any other UID gets none.
EmittedEvent(m, ev) ==
    LET podEvent == PodEventOf(ev)
        pod == ev.object
    IN CASE ev.type = "ADDED" ->
              [podEvent EXCEPT !.Message = "New pod created"]
         [] ev.type = "DELETED" ->
              [podEvent EXCEPT !.Message = "Pod deleted"]
         [] ev.type = "MODIFIED" ->
              IF pod.uid \in DOMAIN m
              THEN [podEvent EXCEPT
                      !.Reason = getChangeReason(StatusOf(m[pod.uid]),
                                                 StatusOf(pod)),
                      !.Message = "Pod updated"]
              ELSE [podEvent EXCEPT
                      !.Message = "New pod detected during watch"]

\* logEvent: the line of the JSON encoding of the event: every field of the
\* PodEvent, by name.
JSONRecord(pe) == [kind |-> "json", event |-> pe]

\* logEvent, switch event.EventType: the human-readable line. It shows the
\* name and, unless the Pod was deleted, the phase; the reason only for a
\* MODIFIED event; the message never.
SummaryText(pe) ==
    CASE pe.EventType = "ADDED" ->
           "NEW POD CREATED: " \o pe.PodName \o " (Phase: " \o pe.Phase \o ")"
      [] pe.EventType = "DELETED" ->
           "POD DELETED: " \o pe.PodName
      [] pe.EventType = "MODIFIED" ->
           "POD UPDATED: " \o pe.PodName \o " (Phase: " \o pe.Phase
               \o ", Reason: " \o pe.Reason \o ")"

SummaryLine(pe) == [kind |-> "summary", text |-> SummaryText(pe)]

\* logEvent: the line written when json.Marshal returns an error.
MarshalErrorLine ==
    [kind |-> "error", text |-> "Failed to marshal event to JSON"]

\* Variant: the encoding error is not logged.
LogLines_SilentDrop(pe, marshalOk) ==
    IF marshalOk THEN <<JSONRecord(pe), SummaryLine(pe)>>
                 ELSE <<>>

\* logEvent, start to end: the lines one call writes.
LogLines(pe, marshalOk) ==
    IF marshalOk THEN <<JSONRecord(pe), SummaryLine(pe)>>
                 ELSE <<MarshalErrorLine>>

\* No series of the counter has a value yet.
NoCounts == [l \in {} |-> 0]

\* logEvent: the labels of podEventsTotal.WithLabelValues(event.Namespace,
\* event.EventType, event.Phase); the Pods of a watch on one namespace
\* have that namespace.
CounterLabels(pe) == <<namespace, pe.EventType, pe.Phase>>

\* Variant: the counter stepped in the branch that stores a phase, which
\* a DELETED event does not take.
CountAfter_NotDeleted(c, pe) ==
    IF pe.EventType = "DELETED" THEN c
    ELSE [l \in (DOMAIN c) \cup {CounterLabels(pe)} |->
            IF l = CounterLabels(pe)
            THEN (IF l \in DOMAIN c THEN c[l] ELSE 0) + 1
            ELSE c[l]]

\* logEvent: podEventsTotal.WithLabelValues(...).Inc()
CountAfter(c, pe) ==
    [l \in (DOMAIN c) \cup {CounterLabels(pe)} |->
        IF l = CounterLabels(pe)
        THEN (IF l \in DOMAIN c THEN c[l] ELSE 0) + 1
        ELSE c[l]]

\* logEvent's event before any call.
NoPodEvent ==
    [EventType |-> "", PodName |-> "", Phase |-> "", Message |-> "",
     Reason |-> ""]

\* ------------------------------------------------------------ configuration

\* main: the namespace used when NAMESPACE is empty or unset; and
\* metav1.NamespaceAll, the namespace argument of Pods(ns) that selects the
\* Pods of every namespace.
DefaultNamespace == "devops-case-study"

NamespaceAll == ""

\* main: namespace := os.Getenv("NAMESPACE"); if namespace == "" { ... }
NamespaceFromEnv(v) == IF v = "" THEN DefaultNamespace ELSE v

\* ---------------------------------------------------------------- initial

\* The monitor after NewPodMonitor, before Start; the Pods the namespace
\* has then.
InitMonitor ==
    /\ pc = "start"
    /\ err = "none"
    /\ exit = "running"
    /\ sigpc = "idle"
    /\ retryCount = 0
    /\ watcherReconnects = 0
    /\ existingPods = EmptyMap
    /\ cluster \in {EmptyMap} \cup {MapPut(EmptyMap, p.uid, p) : p \in Pods}
    /\ watchOpen = FALSE
    /\ stream = <<>>
    /\ unstopped = 0
    /\ backoffDuration = 0
    /\ slept = 0
    /\ event = NoEvent
    /\ retryBefore = 0
    /\ closuresSinceSuccess = 0
    /\ sigAt = "none"
    /\ metricsServer = FALSE
    /\ podTracker = EmptyMap
    /\ activePods = EmptyMap
    /\ trackedUID = EmptyMap
    /\ logged = <<>>
    /\ podEventsTotal = NoCounts
    /\ emitpc = "idle"
    /\ emitting = NoPodEvent
    /\ trackerMutex = {}

\* main, for a process started with NAMESPACE unset and no arguments.
DefaultProcess ==
    /\ envNamespace = ""
    /\ args = <<>>
    /\ namespace = NamespaceFromEnv(envNamespace)

Init ==
    /\ InitMonitor
    /\ DefaultProcess
    /\ oldPod = NoPod
    /\ newPod = NoPod
    /\ reason = NotCalled

\* ------------------------------------------------------- the consumer task

\* The error of an API call (Get, List, Watch) that failed: with ctx
\* cancelled the call fails with "context canceled"; fmt.Errorf("...: %v")
\* wraps either cause in a new error.
CallError(call) ==
    IF ctxCancelled THEN call \o ": context canceled"
                    ELSE call \o ": api error"

\* watchPods returns e to Start, Start to main: the invocations' local maps
\* are gone, every deferred watcher.Stop() of the nested invocations runs
\* (the streams end, what they still carried is dropped), main exits.
Return(e) ==
    /\ pc' = "done"
    /\ err' = e
    /\ exit' = ExitCode(e)
    /\ unstopped' = 0
    /\ existingPods' = EmptyMap
    /\ watchOpen' = FALSE
    /\ stream' = <<>>

\* Variant: the metrics server started before the connectivity test.
Start_ConnectivityTest_MetricsFirst ==
    /\ pc = "start"
    /\ metricsServer' = TRUE
    /\ \E ok \in BOOLEAN :
         /\ ctxCancelled => ~ok
         /\ IF ok THEN /\ pc' = "list"
                       /\ UNCHANGED <<err, exit, unstopped, existingPods,
                                      watchOpen, stream>>
                  ELSE Return(CallError("connect"))
    /\ UNCHANGED <<sigpc, retryCount, watcherReconnects, cluster,
                   backoffDuration, slept, event, retryBefore,
                   closuresSinceSuccess, sigAt,
                   trackerVars, reasonVars,
                   logged, podEventsTotal, configVars, emitVars>>

\* Start: the connectivity test (Namespaces().Get); if it fails Start
\* returns its error, else startMetricsServer and then watchPods.
Start_ConnectivityTest ==
    /\ pc = "start"
    /\ \E ok \in BOOLEAN :
         /\ ctxCancelled => ~ok
         /\ IF ok THEN /\ metricsServer' = TRUE
                       /\ pc' = "list"
                       /\ UNCHANGED <<err, exit, unstopped, existingPods,
                                      watchOpen, stream>>
                  ELSE /\ Return(CallError("connect"))
                       /\ UNCHANGED metricsServer
    /\ UNCHANGED <<sigpc, retryCount, watcherReconnects, cluster,
                   backoffDuration, slept, event, retryBefore,
                   closuresSinceSuccess, sigAt,
                   trackerVars, reasonVars,
                   logged, podEventsTotal, configVars, emitVars>>

\* Variant: the map of the previous session kept at a reconnect.
watchPods_List_KeepsOldMap ==
    /\ pc = "list"
    /\ \E ok \in BOOLEAN :
         /\ ctxCancelled => ~ok
         /\ IF ok THEN /\ existingPods' =
                            IF retryCount = 0 THEN cluster ELSE existingPods
                       /\ pc' = "watch"
                       /\ UNCHANGED <<err, exit, unstopped, watchOpen, stream>>
                  ELSE Return(CallError("list"))
    /\ UNCHANGED <<sigpc, retryCount, watcherReconnects, cluster,
                   backoffDuration, slept, event, retryBefore,
                   closuresSinceSuccess, sigAt,
                   metricsServer, trackerVars, reasonVars,
                   logged, podEventsTotal, configVars, emitVars>>

\* watchPods: a fresh existingPods filled from Pods(ns).List.
watchPods_List ==
    /\ pc = "list"
    /\ \E ok \in BOOLEAN :
         /\ ctxCancelled => ~ok
         /\ IF ok THEN /\ existingPods' = cluster
                       /\ pc' = "watch"
                       /\ UNCHANGED <<err, exit, unstopped, watchOpen, stream>>
                  ELSE Return(CallError("list"))
    /\ UNCHANGED <<sigpc, retryCount, watcherReconnects, cluster,
                   backoffDuration, slept, event, retryBefore,
                   closuresSinceSuccess, sigAt,
                   metricsServer, trackerVars, reasonVars,
                   logged, podEventsTotal, configVars, emitVars>>

\* Variant: a retry counter of the session, cleared once the session's
\* watch is registered.
watchPods_Watch_ResetsCounter ==
    /\ pc = "watch"
    /\ \E ok \in BOOLEAN :
         /\ ctxCancelled => ~ok
         /\ IF ok THEN /\ \E order \in SeqsOf(DOMAIN cluster) :
                            stream' = [i \in 1..Len(order) |->
                                         Event("ADDED", cluster[order[i]])]
                       /\ watchOpen' = TRUE
                       /\ unstopped' = unstopped + 1
                       /\ pc' = "select"
                       /\ retryCount' = 0
                       /\ UNCHANGED <<err, exit, existingPods>>
                  ELSE Return(CallError("watch")) /\ UNCHANGED retryCount
    /\ UNCHANGED <<sigpc, watcherReconnects, cluster,
                   backoffDuration, slept, event, retryBefore,
                   closuresSinceSuccess, sigAt,
                   metricsServer, trackerVars, reasonVars,
                   logged, podEventsTotal, configVars, emitVars>>

\* watchPods: Pods(ns).Watch(ctx, listOptions) with the List's options, which
\* name no resource version: the stream starts at the cluster's state of
\* now, with an ADDED event for every Pod that exists.
watchPods_Watch ==
    /\ pc = "watch"
    /\ \E ok \in BOOLEAN :
         /\ ctxCancelled => ~ok
         /\ IF ok THEN /\ \E order \in SeqsOf(DOMAIN cluster) :
                            stream' = [i \in 1..Len(order) |->
                                         Event("ADDED", cluster[order[i]])]
                       /\ watchOpen' = TRUE
                       /\ unstopped' = unstopped + 1
                       /\ pc' = "select"
                       /\ UNCHANGED <<err, exit, existingPods>>
                  ELSE Return(CallError("watch"))
    /\ UNCHANGED <<sigpc, retryCount, watcherReconnects, cluster,
                   backoffDuration, slept, event, retryBefore,
                   closuresSinceSuccess, sigAt,
                   metricsServer, trackerVars, reasonVars,
                   logged, podEventsTotal, configVars, emitVars>>

\* watchPods, select: an event received from watcher.ResultChan() and
\* handled to the end of the loop body, the call of logEvent included (its
\* lock is taken and released within the step). marshalOk: json.Marshal
\* returns no error; on an error logEvent writes the error line and
\* returns, and watchPods goes on as after any call.
watchPods_Handle(marshalOk) ==
    /\ pc = "select"
    /\ stream # <<>>
    /\ LET ev == Head(stream) IN
         /\ event' = ev
         /\ retryBefore' = retryCount
         /\ retryCount' = RetryAfterEvent(retryCount, ev)
         /\ existingPods' = HandleEvent(existingPods, ev)
         /\ closuresSinceSuccess' =
              IF IsPodNotification(ev) THEN 0 ELSE closuresSinceSuccess
         /\ logged' =
              IF Emits(existingPods, ev)
              THEN LogLines(EmittedEvent(existingPods, ev), marshalOk)
              ELSE <<>>
         /\ podEventsTotal' =
              IF Emits(existingPods, ev) /\ marshalOk
              THEN CountAfter(NoCounts, EmittedEvent(existingPods, ev))
              ELSE NoCounts
         /\ IF Emits(existingPods, ev) /\ marshalOk
            THEN /\ podTracker' =
                      TrackerAfter(podTracker, EmittedEvent(existingPods, ev))
                 /\ activePods' = updateActivePods(activePods, podTracker')
                 /\ trackedUID' =
                      IF ev.type = "DELETED"
                      THEN MapDelete(trackedUID, ev.object.name)
                      ELSE MapPut(trackedUID, ev.object.name, ev.object.uid)
            ELSE UNCHANGED trackerVars
    /\ stream' = Tail(stream)
    /\ UNCHANGED <<pc, err, exit, sigpc, watcherReconnects, cluster, watchOpen,
                   unstopped, backoffDuration, slept, sigAt,
                   metricsServer, reasonVars,
                   configVars, emitVars>>

\* The same in a process whose events json.Marshal encodes without error:
\* every field of a PodEvent is a string, a map of strings or the time.Time
\* of time.Now().
watchPods_Receive == watchPods_Handle(TRUE)

\* The same for an event that goes to logEvent and that json.Marshal fails
\* to encode.
watchPods_ReceiveDropped ==
    /\ stream # <<>>
    /\ Emits(existingPods, Head(stream))
    /\ watchPods_Handle(FALSE)

\* Variant: the reconnect metric stepped after the ceiling test, on the
\* closures that lead to a reconnect only.
watchPods_ChannelClosed_CountsReconnectsOnly ==
    /\ pc = "select"
    /\ stream = <<>>
    /\ ~watchOpen
    /\ retryCount' = retryCount + 1
    /\ closuresSinceSuccess' = closuresSinceSuccess + 1
    /\ event' = NoEvent
    /\ retryBefore' = 0
    /\ logged' = <<>>
    /\ podEventsTotal' = NoCounts
    /\ IF CeilingReached(retryCount')
       THEN /\ Return("ceiling")
            /\ UNCHANGED <<backoffDuration, slept, watcherReconnects>>
       ELSE /\ watcherReconnects' = watcherReconnects + 1
            /\ backoffDuration' = BackoffSeconds(retryCount')
            /\ slept' = 0
            /\ pc' = "backoff"
            /\ UNCHANGED <<err, exit, unstopped, existingPods, watchOpen,
                           stream>>
    /\ UNCHANGED <<sigpc, cluster, sigAt,
                   metricsServer, trackerVars, reasonVars,
                   configVars, emitVars>>

\* watchPods, select: the result channel is closed (!ok).
watchPods_ChannelClosed ==
    /\ pc = "select"
    /\ stream = <<>>
    /\ ~watchOpen
    /\ retryCount' = retryCount + 1
    /\ watcherReconnects' = watcherReconnects + 1
    /\ closuresSinceSuccess' = closuresSinceSuccess + 1
    /\ event' = NoEvent
    /\ retryBefore' = 0
    /\ logged' = <<>>
    /\ podEventsTotal' = NoCounts
    /\ IF CeilingReached(retryCount')
       THEN /\ Return("ceiling")
            /\ UNCHANGED <<backoffDuration, slept>>
       ELSE /\ backoffDuration' = BackoffSeconds(retryCount')
            /\ slept' = 0
            /\ pc' = "backoff"
            /\ UNCHANGED <<err, exit, unstopped, existingPods, watchOpen,
                           stream>>
    /\ UNCHANGED <<sigpc, cluster, sigAt,
                   metricsServer, trackerVars, reasonVars,
                   configVars, emitVars>>

\* watchPods, select: case <-ctx.Done(): return ctx.Err().
watchPods_CtxDone ==
    /\ pc = "select"
    /\ ctxCancelled
    /\ Return("canceled")
    /\ UNCHANGED <<sigpc, retryCount, watcherReconnects, cluster,
                   backoffDuration, slept, event, retryBefore,
                   closuresSinceSuccess, sigAt,
                   metricsServer, trackerVars, reasonVars,
                   logged, podEventsTotal, configVars, emitVars>>

\* watchPods, select: case <-pm.stopCh: return nil.
watchPods_StopCh ==
    /\ pc = "select"
    /\ stopChClosed
    /\ Return("nil")
    /\ UNCHANGED <<sigpc, retryCount, watcherReconnects, cluster,
                   backoffDuration, slept, event, retryBefore,
                   closuresSinceSuccess, sigAt,
                   metricsServer, trackerVars, reasonVars,
                   logged, podEventsTotal, configVars, emitVars>>

\* The backoffDuration seconds of time.Sleep(backoffDuration) pass.
Sleep_Elapse ==
    /\ pc = "backoff"
    /\ slept < backoffDuration
    /\ slept' = backoffDuration
    /\ UNCHANGED <<pc, err, exit, sigpc, retryCount, watcherReconnects,
                   existingPods, cluster, watchOpen, stream, unstopped,
                   backoffDuration, event, retryBefore, closuresSinceSuccess,
                   sigAt,
                   metricsServer, trackerVars, reasonVars,
                   logged, podEventsTotal, configVars, emitVars>>

\* time.Sleep has returned: return pm.watchPods(ctx), a nested invocation.
watchPods_Retry ==
    /\ pc = "backoff"
    /\ slept = backoffDuration
    /\ pc' = "list"
    /\ UNCHANGED <<err, exit, sigpc, retryCount, watcherReconnects,
                   existingPods, cluster, watchOpen, stream, unstopped,
                   backoffDuration, slept, event, retryBefore,
                   closuresSinceSuccess, sigAt,
                   metricsServer, trackerVars, reasonVars,
                   logged, podEventsTotal, configVars, emitVars>>

\* --------------------------------------------------- the signal goroutine

\* Start's goroutine: <-sigCh, then close(pm.stopCh).
Signal_CloseStopCh ==
    /\ exit = "running"
    /\ sigpc = "idle"
    /\ sigpc' = "closed"
    /\ sigAt' = CASE pc = "start"   -> "startup"
                 [] pc = "backoff" -> "backoff"
                 [] OTHER          -> "session"
    /\ UNCHANGED <<pc, err, exit, retryCount, watcherReconnects, existingPods,
                   cluster, watchOpen, stream, unstopped, backoffDuration,
                   slept, event, retryBefore, closuresSinceSuccess,
                   metricsServer, trackerVars, reasonVars,
                   logged, podEventsTotal, configVars, emitVars>>

\* Start's goroutine: cancel().
Signal_Cancel ==
    /\ exit = "running"
    /\ sigpc = "closed"
    /\ sigpc' = "cancelled"
    /\ UNCHANGED <<pc, err, exit, retryCount, watcherReconnects, existingPods,
                   cluster, watchOpen, stream, unstopped, backoffDuration,
                   slept, event, retryBefore, closuresSinceSuccess, sigAt,
                   metricsServer, trackerVars, reasonVars,
                   logged, podEventsTotal, configVars, emitVars>>

\* ------------------------------------------- the cluster and the API server

\* The event of a change reaches the open watch stream.
Notify(ev) ==
    IF watchOpen
    THEN Len(stream) < MaxQueue /\ stream' = Append(stream, ev)
    ELSE UNCHANGED stream

EnvUnchanged ==
    UNCHANGED <<pc, err, exit, sigpc, retryCount, watcherReconnects,
                existingPods, unstopped, backoffDuration, slept,
                event, retryBefore, closuresSinceSuccess, sigAt,
                metricsServer, trackerVars, reasonVars,
                   logged, podEventsTotal, configVars, emitVars>>

\* A Pod is created: its name is free in the namespace, its UID is new.
Cluster_Create ==
    /\ exit = "running"
    /\ \E p \in Pods :
         /\ p.uid \notin DOMAIN cluster
         /\ \A u \in DOMAIN cluster : cluster[u].name # p.name
         /\ cluster' = MapPut(cluster, p.uid, p)
         /\ Notify(Event("ADDED", p))
    /\ UNCHANGED watchOpen
    /\ EnvUnchanged

\* A Pod is updated: its phase changes, or only its metadata or spec.
Cluster_Modify ==
    /\ exit = "running"
    /\ \E u \in DOMAIN cluster, ph \in Phases :
         /\ cluster' = MapPut(cluster, u, Pod(u, ph))
         /\ Notify(Event("MODIFIED", Pod(u, ph)))
    /\ UNCHANGED watchOpen
    /\ EnvUnchanged

\* A Pod is deleted.
Cluster_Delete ==
    /\ exit = "running"
    /\ \E u \in DOMAIN cluster :
         /\ cluster' = MapDelete(cluster, u)
         /\ Notify(Event("DELETED", cluster[u]))
    /\ UNCHANGED watchOpen
    /\ EnvUnchanged

\* The API server sends a watch.Error event (a *metav1.Status).
API_SendError ==
    /\ exit = "running"
    /\ watchOpen
    /\ Notify(Event("ERROR", StatusObj))
    /\ UNCHANGED <<cluster, watchOpen>>
    /\ EnvUnchanged

\* The stream carries an object that is not a *corev1.Pod.
API_SendOther ==
    /\ exit = "running"
    /\ watchOpen
    /\ Notify(Event("ADDED", OtherObj))
    /\ UNCHANGED <<cluster, watchOpen>>
    /\ EnvUnchanged

\* The watch stream ends: the result channel is closed once drained.
API_CloseStream ==
    /\ exit = "running"
    /\ watchOpen
    /\ watcherReconnects < MaxReconnects
    /\ watchOpen' = FALSE
    /\ UNCHANGED <<cluster, stream>>
    /\ EnvUnchanged

\* The same under SpecRetry.
API_CloseStreamRetry ==
    /\ exit = "running"
    /\ watchOpen
    /\ watcherReconnects < MaxClosures
    /\ watchOpen' = FALSE
    /\ UNCHANGED <<cluster, stream>>
    /\ EnvUnchanged

\* ------------------------------------------------------------ specification

Next ==
    \/ Start_ConnectivityTest
    \/ watchPods_List
    \/ watchPods_Watch
    \/ watchPods_Receive
    \/ watchPods_ChannelClosed
    \/ watchPods_CtxDone
    \/ watchPods_StopCh
    \/ Sleep_Elapse
    \/ watchPods_Retry
    \/ Signal_CloseStopCh
    \/ Signal_Cancel
    \/ Cluster_Create
    \/ Cluster_Modify
    \/ Cluster_Delete
    \/ API_SendError
    \/ API_SendOther
    \/ API_CloseStream

Spec == Init /\ [][Next]_vars

\* The retry logic over long runs: the cluster holds at most the Pod u1, in
\* phase Pending, which is created and deleted; the stream carries its
\* events and watch.Error events, and may close MaxClosures times.
RetryScope ==
    /\ DOMAIN cluster \subseteq {"u1"}
    /\ \A u \in DOMAIN cluster : cluster[u].phase = "Pending"

InitRetry == Init /\ RetryScope

NextRetry ==
    \/ Start_ConnectivityTest
    \/ watchPods_List
    \/ watchPods_Watch
    \/ watchPods_Receive
    \/ watchPods_ChannelClosed
    \/ watchPods_CtxDone
    \/ watchPods_StopCh
    \/ Sleep_Elapse
    \/ watchPods_Retry
    \/ Signal_CloseStopCh
    \/ Signal_Cancel
    \/ Cluster_Create /\ RetryScope'
    \/ Cluster_Delete
    \/ API_SendError
    \/ API_CloseStreamRetry

SpecRetry == InitRetry /\ [][NextRetry]_vars

\* The runs in which every closure of the watch channel is followed by a
\* processed Pod notification before the stream closes again.
API_CloseStreamAnswered ==
    /\ closuresSinceSuccess = 0
    /\ API_CloseStreamRetry

NextAnswered ==
    \/ Start_ConnectivityTest
    \/ watchPods_List
    \/ watchPods_Watch
    \/ watchPods_Receive
    \/ watchPods_ChannelClosed
    \/ watchPods_CtxDone
    \/ watchPods_StopCh
    \/ Sleep_Elapse
    \/ watchPods_Retry
    \/ Signal_CloseStopCh
    \/ Signal_Cancel
    \/ Cluster_Create /\ RetryScope'
    \/ Cluster_Delete
    \/ API_SendError
    \/ API_CloseStreamAnswered

SpecAnswered == InitRetry /\ [][NextAnswered]_vars

\* The watch loop with an encoder that may fail: the cluster holds at most
\* the Pod u1, which is created, updated and deleted; json.Marshal may
\* return an error for any event handed to logEvent.
NextDrop ==
    \/ Start_ConnectivityTest
    \/ watchPods_List
    \/ watchPods_Watch
    \/ watchPods_Receive
    \/ watchPods_ReceiveDropped
    \/ watchPods_ChannelClosed
    \/ watchPods_CtxDone
    \/ watchPods_StopCh
    \/ Sleep_Elapse
    \/ watchPods_Retry
    \/ Signal_CloseStopCh
    \/ Signal_Cancel
    \/ Cluster_Create /\ RetryScope'
    \/ Cluster_Modify /\ RetryScope'
    \/ Cluster_Delete
    \/ API_SendError
    \/ API_CloseStream

SpecDrop == InitRetry /\ [][NextDrop]_vars

\* The watch loop on a stream that is not bound to the cluster's history:
\* besides the events of the Pod u1 it may carry a MODIFIED or a DELETED
\* event of a Pod that no List returned and no ADDED announced. watchPods
\* takes whatever watch.Event the channel delivers, so every one of these
\* runs is a run of the code; an API server that keeps the watch contract
\* produces only those of them that SpecRetry has.
API_SendUnannounced ==
    /\ exit = "running"
    /\ watchOpen
    /\ \E t \in {"MODIFIED", "DELETED"}, p \in Pods :
         /\ p.uid \notin DOMAIN cluster
         /\ Notify(Event(t, p))
    /\ UNCHANGED <<cluster, watchOpen>>
    /\ EnvUnchanged

NextUnannounced ==
    \/ Start_ConnectivityTest
    \/ watchPods_List
    \/ watchPods_Watch
    \/ watchPods_Receive
    \/ watchPods_ChannelClosed
    \/ watchPods_CtxDone
    \/ watchPods_StopCh
    \/ Sleep_Elapse
    \/ watchPods_Retry
    \/ Signal_CloseStopCh
    \/ Signal_Cancel
    \/ Cluster_Create /\ RetryScope'
    \/ Cluster_Delete
    \/ API_SendUnannounced
    \/ API_CloseStream

SpecUnannounced == InitRetry /\ [][NextUnannounced]_vars

\* Variant: the loop looks at ctx.Done() and pm.stopCh only when an event
\* has arrived.
watchPods_Shutdown_OnEvent ==
    /\ stream # <<>>
    /\ (watchPods_CtxDone \/ watchPods_StopCh)

\* watchPods, select: the two cases that end it on a shutdown.
watchPods_Shutdown == watchPods_CtxDone \/ watchPods_StopCh

\* The watch loop under fair scheduling. The consumer goroutine and the
\* signal goroutine are scheduled again and again, so each takes its next
\* step when it stays possible; a select with several ready cases picks
\* among them at random, so a case that stays ready is taken in the end.
\* Nothing is assumed of the cluster and the API server: the stream may
\* stay open and silent for ever.
NextLive ==
    \/ Start_ConnectivityTest
    \/ watchPods_List
    \/ watchPods_Watch
    \/ watchPods_Receive
    \/ watchPods_ChannelClosed
    \/ watchPods_Shutdown
    \/ Sleep_Elapse
    \/ watchPods_Retry
    \/ Signal_CloseStopCh
    \/ Signal_Cancel
    \/ Cluster_Create /\ RetryScope'
    \/ Cluster_Delete
    \/ API_SendError
    \/ API_CloseStream

FairLive ==
    /\ WF_vars(Start_ConnectivityTest)
    /\ WF_vars(watchPods_List)
    /\ WF_vars(watchPods_Watch)
    /\ WF_vars(watchPods_ChannelClosed)
    /\ WF_vars(watchPods_Shutdown)
    /\ WF_vars(Sleep_Elapse)
    /\ WF_vars(watchPods_Retry)
    /\ WF_vars(Signal_Cancel)

SpecLive == InitRetry /\ [][NextLive]_vars /\ FairLive

\* The process as main starts it: NAMESPACE empty (or unset) or naming a
\* namespace, with no argument or with --health-check. main reads the
\* variable and never looks at os.Args.
EnvValues == {"", "team-a"}

ArgLists == {<<>>, <<"--health-check">>}

InitMain ==
    /\ InitMonitor
    /\ RetryScope
    /\ envNamespace \in EnvValues
    /\ args \in ArgLists
    /\ namespace = NamespaceFromEnv(envNamespace)
    /\ oldPod = NoPod
    /\ newPod = NoPod
    /\ reason = NotCalled

SpecMain == InitMain /\ [][NextLive]_vars

\* ------------------------------------------------- logEvent, step by step

\* The Pods whose events logEvent is given: two names, either phase.
EmitPods == {Pod(u, ph) : u \in {"u1", "u3"}, ph \in Phases}

\* The PodEvents watchPods can hand to logEvent for them.
LifecycleEvents ==
    {EmittedEvent(m, Event(t, p)) :
        t \in PodEventTypes, p \in EmitPods,
        m \in {EmptyMap} \cup {MapPut(EmptyMap, q.uid, q) : q \in EmitPods}}

\* Variant: the human-readable line written first.
logEvent_Then_SummaryFirst(pos) ==
    CASE pos = "marshal" -> "summary"
      [] pos = "summary" -> "print"
      [] pos = "print"   -> "count"
      [] pos = "count"   -> "lock"
      [] pos = "lock"    -> "write"
      [] pos = "write"   -> "update"
      [] pos = "update"  -> "unlock"
      [] pos = "unlock"  -> "idle"

\* Variant: Unlock left out.
logEvent_Then_NoUnlock(pos) ==
    CASE pos = "marshal" -> "print"
      [] pos = "print"   -> "count"
      [] pos = "count"   -> "lock"
      [] pos = "lock"    -> "write"
      [] pos = "write"   -> "update"
      [] pos = "update"  -> "summary"
      [] pos = "unlock"  -> "summary"
      [] pos = "summary" -> "idle"

\* logEvent: the statement that follows each statement when none returns:
\* json.Marshal, Printf of the JSON, podEventsTotal's Inc,
\* trackerMutex.Lock, the podTracker update, updateActivePods,
\* trackerMutex.Unlock, Printf of the summary.
logEvent_Then(pos) ==
    CASE pos = "marshal" -> "print"
      [] pos = "print"   -> "count"
      [] pos = "count"   -> "lock"
      [] pos = "lock"    -> "write"
      [] pos = "write"   -> "update"
      [] pos = "update"  -> "unlock"
      [] pos = "unlock"  -> "summary"
      [] pos = "summary" -> "idle"

\* What a step of logEvent leaves alone besides its own variables.
EmitUnchanged == UNCHANGED <<monitorVars, trackedUID, reasonVars, configVars>>

\* watchPods calls logEvent(event).
logEvent_Call(pe) ==
    /\ emitpc = "idle"
    /\ Len(logged) + 2 <= MaxLog
    /\ emitting' = pe
    /\ emitpc' = "marshal"
    /\ UNCHANGED <<podEventsTotal, logged, trackerMutex, podTracker, activePods>>
    /\ EmitUnchanged

\* eventJSON, err := json.Marshal(event); on an error the error line and
\* return.
logEvent_Marshal ==
    /\ emitpc = "marshal"
    /\ \E ok \in BOOLEAN :
         IF ok THEN /\ emitpc' = logEvent_Then("marshal")
                    /\ UNCHANGED logged
               ELSE /\ logged' = Append(logged, MarshalErrorLine)
                    /\ emitpc' = "idle"
    /\ UNCHANGED <<podEventsTotal, emitting, trackerMutex, podTracker, activePods>>
    /\ EmitUnchanged

\* pm.logger.Printf("%s", string(eventJSON))
logEvent_Print ==
    /\ emitpc = "print"
    /\ logged' = Append(logged, JSONRecord(emitting))
    /\ emitpc' = logEvent_Then("print")
    /\ UNCHANGED <<podEventsTotal, emitting, trackerMutex, podTracker, activePods>>
    /\ EmitUnchanged

\* podEventsTotal.WithLabelValues(...).Inc() (and the timestamp gauge).
logEvent_Count ==
    /\ emitpc = "count"
    /\ podEventsTotal' = CountAfter(podEventsTotal, emitting)
    /\ emitpc' = logEvent_Then("count")
    /\ UNCHANGED <<emitting, logged, trackerMutex, podTracker, activePods>>
    /\ EmitUnchanged

\* pm.trackerMutex.Lock(): returns once no task holds the mutex.
logEvent_Lock ==
    /\ emitpc = "lock"
    /\ trackerMutex = {}
    /\ trackerMutex' = {"consumer"}
    /\ emitpc' = logEvent_Then("lock")
    /\ UNCHANGED <<podEventsTotal, emitting, logged, podTracker, activePods>>
    /\ EmitUnchanged

\* The delete from, or the assignment to, pm.podTracker.
logEvent_Write ==
    /\ emitpc = "write"
    /\ podTracker' = TrackerAfter(podTracker, emitting)
    /\ emitpc' = logEvent_Then("write")
    /\ UNCHANGED <<podEventsTotal, emitting, logged, trackerMutex, activePods>>
    /\ EmitUnchanged

\* pm.updateActivePods(): reads pm.podTracker, sets the gauges.
logEvent_UpdateActivePods ==
    /\ emitpc = "update"
    /\ activePods' = updateActivePods(activePods, podTracker)
    /\ emitpc' = logEvent_Then("update")
    /\ UNCHANGED <<podEventsTotal, emitting, logged, trackerMutex, podTracker>>
    /\ EmitUnchanged

\* pm.trackerMutex.Unlock()
logEvent_Unlock ==
    /\ emitpc = "unlock"
    /\ trackerMutex' = trackerMutex \ {"consumer"}
    /\ emitpc' = logEvent_Then("unlock")
    /\ UNCHANGED <<podEventsTotal, emitting, logged, podTracker, activePods>>
    /\ EmitUnchanged

\* switch event.EventType: the human-readable line; logEvent returns.
logEvent_Summary ==
    /\ emitpc = "summary"
    /\ logged' = Append(logged, SummaryLine(emitting))
    /\ emitpc' = logEvent_Then("summary")
    /\ UNCHANGED <<podEventsTotal, emitting, trackerMutex, podTracker, activePods>>
    /\ EmitUnchanged

InitEmit == Init /\ cluster = EmptyMap

NextEmit ==
    \/ \E pe \in LifecycleEvents : logEvent_Call(pe)
    \/ logEvent_Marshal
    \/ logEvent_Print
    \/ logEvent_Count
    \/ logEvent_Lock
    \/ logEvent_Write
    \/ logEvent_UpdateActivePods
    \/ logEvent_Unlock
    \/ logEvent_Summary

SpecEmit == InitEmit /\ [][NextEmit]_vars

\* getChangeReason on its own: every pair of Pod statuses within the bounds
\* as (oldPod, newPod), and one call.
InitReason ==
    /\ InitMonitor
    /\ DefaultProcess
    /\ cluster = EmptyMap
    /\ oldPod \in ReasonPods
    /\ newPod \in ReasonPods
    /\ reason = NotCalled

getChangeReason_Call ==
    /\ oldPod # NoPod
    /\ reason = NotCalled
    /\ reason' = [reasons |-> ReasonsOf(oldPod, newPod),
                  result |-> getChangeReason(oldPod, newPod)]
    /\ UNCHANGED <<monitorVars, trackerVars, oldPod, newPod,
                   logged, podEventsTotal, configVars, emitVars>>

NextReason == getChangeReason_Call

SpecReason == InitReason /\ [][NextReason]_vars

\* ------------------------------------------------------------------ claims

\* C1: in a session, right after a DELETED notification for a Pod UID is
\* processed existingPods has no entry for that UID; right after an ADDED
\* one it has an entry; and processing a notification removes no entry
\* other than the one of the UID a DELETED names.
C1_SnapshotFollowsAddDelete ==
    [][watchPods_Receive /\ IsPodNotification(Head(stream)) =>
         LET ev == Head(stream)
             u == ev.object.uid
         IN /\ ev.type = "DELETED" => u \notin DOMAIN existingPods'
            /\ ev.type = "ADDED" => u \in DOMAIN existingPods'
            /\ \A v \in DOMAIN existingPods :
                 ~(ev.type = "DELETED" /\ v = u) => v \in DOMAIN existingPods'
    ]_vars

\* C1 witness: a DELETED for one UID has just been processed, its entry is
\* gone and the entry of another UID is still there.
C1_Witness ==
    /\ pc = "select"
    /\ event.type = "DELETED"
    /\ event.object.kind = "Pod"
    /\ event.object.uid \notin DOMAIN existingPods
    /\ existingPods # EmptyMap

\* C2: after an ADDED, MODIFIED or DELETED notification was received from
\* the watch channel, retryCount is 0, whatever it was before.
C2_ResetOnNotification ==
    event.type \in PodEventTypes => retryCount = 0

\* C2 witness: a Pod notification was received with the counter one below
\* the ceiling, and the counter is 0.
C2_Witness ==
    /\ IsPodNotification(event)
    /\ retryBefore = maxRetries - 1
    /\ retryCount = 0

\* C3 (as claimed): after a watch.Error notification, or one whose object is
\* not a Pod, retryCount is what it was before the notification.
C3_Claim ==
    (event.type = "ERROR" \/ (event # NoEvent /\ event.object.kind # "Pod"))
        => retryCount = retryBefore

\* C4 (as claimed): with ceiling 10, the 10th closure of the watch channel
\* in a row with no Pod notification processed in between makes watchPods
\* return the ceiling error at once (no sleep, no further List or Watch),
\* and the ceiling error is returned only then.
C4_Claim ==
    /\ closuresSinceSuccess >= maxRetries => pc = "done" /\ err = "ceiling"
    /\ err = "ceiling" => pc = "done" /\ closuresSinceSuccess >= maxRetries

C6_AnsweredClosuresNeverFatal ==
    /\ retryCount <= 1
    /\ err # "ceiling"
    /\ IsPodNotification(event) => retryCount = 0

\* C6 witness: more closures than the ceiling have occurred, each one
\* answered, the last notification is processed and the monitor runs.
C6_Witness ==
    /\ watcherReconnects > maxRetries
    /\ IsPodNotification(event)
    /\ retryBefore = 1
    /\ retryCount = 0
    /\ pc = "select"

\* An API call failed for a reason of the API server's.
ApiFailed == err \in {"connect: api error", "list: api error", "watch: api error"}

\* C7 (as claimed): when the shutdown signal arrives after startup
\* succeeded (in a session or in a reconnect backoff) and no API call fails
\* for a reason of the server's, the process ends with every watch
\* registration stopped and a clean exit code.
C7_Claim ==
    (sigAt \in {"session", "backoff"} /\ pc = "done" /\ ~ApiFailed)
        => (exit = "clean" /\ unstopped = 0)

\* C8 (as claimed): every change made to a Pod after a session's List is
\* delivered on that session's Watch, so once the open stream has nothing
\* left to deliver the snapshot map equals the cluster.
C8_Claim ==
    (pc = "select" /\ watchOpen /\ stream = <<>>) => existingPods = cluster

\* C9 (as claimed): after startup, when no shutdown was signalled, the
\* process is fatal after a reconnect only with the ceiling error and the
\* counter at the ceiling: a List or Watch that fails while a session is
\* re-opened below the ceiling is not fatal.
C9_Claim ==
    (exit = "fatal" /\ watcherReconnects >= 1 /\ sigAt = "none")
        => (err = "ceiling" /\ retryCount >= maxRetries)

\* C10 (as claimed): when the shutdown signal arrives during the backoff
\* sleep with part of the delay left, no more of the delay is waited and
\* the consumer's next step is to return, not to re-open a session.
C10_Claim ==
    [][(sigAt = "backoff" /\ pc = "backoff" /\ slept < backoffDuration) =>
         (slept' = slept /\ pc' \in {"backoff", "done"})]_vars

\* C11 (as claimed): once the shutdown signal has been received after
\* startup (in a session or during a reconnect backoff), no List call and
\* no Watch registration on Pods is issued any more.
C11_Claim ==
    [][(sigAt \in {"session", "backoff"}) =>
         ~(watchPods_List \/ watchPods_Watch)]_vars

\* The errors of a failed connectivity test.
ConnectErrors == {"connect: api error", "connect: context canceled"}

\* C12: when the connectivity test fails, Start returns its error with the
\* metrics server not started and no watch registered, no List or Watch
\* on Pods is issued before or after, and the process exits non-zero; the
\* consumer is in watchPods only after the test succeeded (no error, the
\* metrics server started).
C12_ProbeFailureIsFatalBeforeWatch ==
    /\ [](err \in ConnectErrors =>
            /\ pc = "done"
            /\ exit = "fatal"
            /\ ~metricsServer
            /\ unstopped = 0
            /\ watcherReconnects = 0)
    /\ [](pc \in {"list", "watch", "select", "backoff"} =>
            err = "none" /\ metricsServer)
    /\ [][Start_ConnectivityTest /\ pc' = "done" =>
            err' \in ConnectErrors /\ exit' = "fatal" /\ ~metricsServer']_vars
    /\ [][(watchPods_List \/ watchPods_Watch) =>
            pc # "start" /\ err \notin ConnectErrors /\ metricsServer]_vars
    /\ [][(err \in ConnectErrors) =>
            ~(watchPods_List \/ watchPods_Watch)]_vars

\* C12 witness: the connectivity test failed for a reason of the server's
\* (no shutdown was signalled) and the process has exited.
C12_Witness ==
    /\ err = "connect: api error"
    /\ sigAt = "none"
    /\ exit = "fatal"
    /\ ~metricsServer

\* C13 (as claimed): in a session re-opened after a closure of the watch
\* channel (the re-List and the Watch succeeded), once the open stream has
\* nothing left to deliver the identities of the snapshot map are exactly
\* the Pods of the cluster.
C13_Claim ==
    (watcherReconnects >= 1 /\ pc = "select" /\ watchOpen /\ stream = <<>>)
        => DOMAIN existingPods = DOMAIN cluster

\* C14 (as claimed): for every phase the active_pods gauge equals the number
\* of podTracker entries of that phase, 0 included (the gauges and the map
\* change only in logEvent, so the equality after every logEvent is the
\* equality in every state).
C14_Claim ==
    \A ph \in Phases : GaugeValue(activePods, ph) = TrackedIn(podTracker, ph)

\* C15 (as claimed): when a DELETED notification is processed for a Pod that
\* podTracker tracks, the active_pods gauge of the phase podTracker held
\* for it is one less than before, and the Pod's UID is not in the
\* snapshot map.
C15_Claim ==
    [][(/\ watchPods_Receive
        /\ IsPodNotification(Head(stream))
        /\ Head(stream).type = "DELETED"
        /\ Head(stream).object.name \in DOMAIN podTracker) =>
         LET pod == Head(stream).object
             ph == podTracker[pod.name]
         IN /\ GaugeValue(activePods', ph) = GaugeValue(activePods, ph) - 1
            /\ pod.uid \notin DOMAIN existingPods'
    ]_vars

\* C16 (as claimed): the entries of podTracker belong to Pod identities: a
\* lifecycle event of one Pod neither overwrites nor removes the entry
\* that an event of a Pod with another UID wrote, also when the two Pods
\* have the same name.
C16_Claim ==
    [][(watchPods_Receive /\ Emits(existingPods, Head(stream))) =>
         \A n \in DOMAIN podTracker :
            trackedUID[n] # Head(stream).object.uid =>
               /\ n \in DOMAIN podTracker'
               /\ podTracker'[n] = podTracker[n]
               /\ trackedUID'[n] = trackedUID[n]
    ]_vars

\* ------------------------------------------- claims about getChangeReason

\* getChangeReason has returned.
Returned == reason # NotCalled

Min(a, b) == IF a <= b THEN a ELSE b

\* The indexes both container lists have.
SharedIndexes == 1..Min(Len(oldPod.ContainerStatuses), Len(newPod.ContainerStatuses))

\* Every message of each of the three kinds.
PhaseMessages == {PhaseMessage(a, b) : a, b \in Phases}

ContainerMessages ==
    {ReadinessMessage(c.Name, c.Ready) : c \in ContainerStatuses}
    \cup {RestartMessage(c.Name, c.RestartCount) : c \in ContainerStatuses}

ConditionMessages ==
    {ConditionChangedMessage(c.Type, c.Status) : c \in PodConditions}
    \cup {NewConditionMessage(c.Type, c.Status) : c \in PodConditions}

IsPhaseMessage(m) == m \in PhaseMessages

IsContainerMessage(m) == m \in ContainerMessages

IsConditionMessage(m) == m \in ConditionMessages

\* The index of the first condition of a type in a list, 0 if there is none.
FirstOfType(conds, type) ==
    IF \E k \in 1..Len(conds) : conds[k].Type = type
    THEN CHOOSE k \in 1..Len(conds) :
            /\ conds[k].Type = type
            /\ \A l \in 1..(k - 1) : conds[l].Type # type
    ELSE 0

\* The messages the claimed algorithm gives for container index i, and for
\* the i-th condition of the new list.
ExpectedAtIndex(i) ==
    LET o == oldPod.ContainerStatuses[i]
        n == newPod.ContainerStatuses[i]
    IN (IF o.Ready # n.Ready THEN <<ReadinessMessage(n.Name, n.Ready)>>
                             ELSE <<>>)
       \o (IF o.RestartCount # n.RestartCount
           THEN <<RestartMessage(n.Name, n.RestartCount)>> ELSE <<>>)

ExpectedForCondition(i) ==
    LET c == newPod.Conditions[i]
        k == FirstOfType(oldPod.Conditions, c.Type)
    IN IF k = 0 THEN <<NewConditionMessage(c.Type, c.Status)>>
       ELSE IF oldPod.Conditions[k].Status # c.Status
            THEN <<ConditionChangedMessage(c.Type, c.Status)>>
            ELSE <<>>

\* The messages in the claimed order: the phase message, the container
\* messages by increasing index, the condition messages in the order of
\* the new list.
ExpectedContainers[k \in 0..MaxContainers] ==
    IF k = 0 THEN <<>> ELSE ExpectedContainers[k - 1] \o ExpectedAtIndex(k)

ExpectedConditions[k \in 0..MaxConditions] ==
    IF k = 0 THEN <<>> ELSE ExpectedConditions[k - 1] \o ExpectedForCondition(k)

ExpectedMessages ==
    (IF oldPod.Phase # newPod.Phase
     THEN <<PhaseMessage(oldPod.Phase, newPod.Phase)>> ELSE <<>>)
    \o ExpectedContainers[Min(Len(oldPod.ContainerStatuses),
                              Len(newPod.ContainerStatuses))]
    \o ExpectedConditions[Len(newPod.Conditions)]

\* The elements of a sequence with "; " between them.
JoinedBySemicolon(q) ==
    LET upTo[k \in 1..Len(q)] ==
            IF k = 1 THEN q[1] ELSE upTo[k - 1] \o "; " \o q[k]
    IN upTo[Len(q)]

\* Scenario B: Pending -> Running, container app readiness false -> true.
ScenarioB ==
    /\ oldPod = [Phase |-> "Pending", Conditions |-> <<>>,
                 ContainerStatuses |->
                    <<[Name |-> "app", Ready |-> FALSE, RestartCount |-> 0]>>]
    /\ newPod = [Phase |-> "Running", Conditions |-> <<>>,
                 ContainerStatuses |->
                    <<[Name |-> "app", Ready |-> TRUE, RestartCount |-> 0]>>]

\* C17: getChangeReason returns the applicable messages joined with "; " in
\* the fixed order phase message, then by increasing container index the
\* readiness message followed by the restart-count message, then the
\* condition messages in the order of the new condition list; for scenario
\* B it returns exactly "Phase changed from Pending to Running; Container
\* app readiness changed to true".
C17_MessagesInFixedOrder ==
    Returned =>
        /\ ExpectedMessages # <<>> =>
               reason.result = JoinedBySemicolon(ExpectedMessages)
        /\ reason.reasons =
               SelectSeq(reason.reasons, IsPhaseMessage)
               \o SelectSeq(reason.reasons, IsContainerMessage)
               \o SelectSeq(reason.reasons, IsConditionMessage)
        /\ ScenarioB =>
               reason.result = "Phase changed from Pending to Running; Container app readiness changed to true"

\* C17 witness: scenario B has been computed.
C17_Witness ==
    /\ ScenarioB
    /\ Returned
    /\ Len(reason.reasons) = 2

\* Neither the phase nor the readiness or restart count at any index both
\* container lists have differs between oldPod and newPod.
NoPhaseOrContainerDifference ==
    /\ oldPod.Phase = newPod.Phase
    /\ \A i \in SharedIndexes :
          /\ oldPod.ContainerStatuses[i].Ready = newPod.ContainerStatuses[i].Ready
          /\ oldPod.ContainerStatuses[i].RestartCount =
                newPod.ContainerStatuses[i].RestartCount

\* C18 (as claimed): the result is exactly "Metadata or spec updated" if
\* and only if the phases are equal, no shared container index differs in
\* readiness or restart count, and every condition of the new list has
\* some condition of its type and with its status in the old list.
C18_Original ==
    Returned =>
        (reason.result = Fallback <=>
            /\ NoPhaseOrContainerDifference
            /\ \A i \in 1..Len(newPod.Conditions) :
                  \E k \in 1..Len(oldPod.Conditions) :
                     oldPod.Conditions[k] = newPod.Conditions[i])

\* C18 (amended): the result is exactly "Metadata or spec updated" if and
\* only if the phases are equal, no shared container index differs in
\* readiness or restart count, and for every condition of the new list the
\* FIRST condition of its type in the old list exists and has its status;
\* the fallback is returned only with no message at all, and is never one
\* of several joined messages.
C18_FallbackIffNoDifference ==
    Returned =>
        /\ reason.result = Fallback <=>
              /\ NoPhaseOrContainerDifference
              /\ \A i \in 1..Len(newPod.Conditions) :
                    LET k == FirstOfType(oldPod.Conditions,
                                         newPod.Conditions[i].Type)
                    IN /\ k # 0
                       /\ oldPod.Conditions[k].Status =
                             newPod.Conditions[i].Status
        /\ reason.result = Fallback <=> reason.reasons = <<>>
        /\ \A i \in 1..Len(reason.reasons) : reason.reasons[i] # Fallback

\* C18 witness: a MODIFIED that changes only metadata (equal statuses, with
\* a container and a condition) has been given the fallback.
C18_Witness ==
    /\ Returned
    /\ oldPod = newPod
    /\ Len(newPod.ContainerStatuses) >= 1
    /\ Len(newPod.Conditions) >= 1
    /\ reason.result = Fallback

\* C19: the container statuses are compared by index only, at the indexes
\* both lists have: a readiness (restart-count) message for a name and a
\* value is among the reasons exactly when at some shared index the new
\* list's container has this name and value and the old list's container
\* AT THAT INDEX, whatever its name, has another value; there are as many
\* container messages as differing fields at shared indexes, so a
\* container that only one list has contributes none.
C19_ContainersComparedByIndex ==
    Returned =>
        LET old == oldPod.ContainerStatuses
            new == newPod.ContainerStatuses
            msgs == SelectSeq(reason.reasons, IsContainerMessage)
        IN /\ \A c \in ContainerStatuses :
                 (\E j \in 1..Len(msgs) :
                     msgs[j] = ReadinessMessage(c.Name, c.Ready))
                 <=> (\E i \in SharedIndexes :
                         /\ new[i].Name = c.Name
                         /\ new[i].Ready = c.Ready
                         /\ old[i].Ready # c.Ready)
           /\ \A c \in ContainerStatuses :
                 (\E j \in 1..Len(msgs) :
                     msgs[j] = RestartMessage(c.Name, c.RestartCount))
                 <=> (\E i \in SharedIndexes :
                         /\ new[i].Name = c.Name
                         /\ new[i].RestartCount = c.RestartCount
                         /\ old[i].RestartCount # c.RestartCount)
           /\ Len(msgs) =
                 Cardinality({i \in SharedIndexes : old[i].Ready # new[i].Ready})
                 + Cardinality({i \in SharedIndexes :
                                  old[i].RestartCount # new[i].RestartCount})

\* C19 witness: the container list was reordered (app, db -> db, app) with
\* a third difference at no index, and the two messages name the new
\* list's containers.
C19_Witness ==
    /\ Returned
    /\ oldPod.ContainerStatuses =
          <<[Name |-> "app", Ready |-> FALSE, RestartCount |-> 0],
            [Name |-> "db", Ready |-> TRUE, RestartCount |-> 0]>>
    /\ newPod.ContainerStatuses =
          <<[Name |-> "db", Ready |-> TRUE, RestartCount |-> 0],
            [Name |-> "app", Ready |-> FALSE, RestartCount |-> 0]>>
    /\ reason.result = "Container db readiness changed to true; Container app readiness changed to false"

\* C20: for each condition of the new list the reasons hold "Condition
\* <type> changed to <status>" exactly when the first condition of that
\* type in the old list has another status, "New condition <type>:
\* <status>" exactly when the old list has no condition of that type, and
\* nothing otherwise: there are as many condition messages as such
\* conditions in the new list, so a condition only the old list has
\* contributes none.
C20_ConditionsAgainstFirstOfType ==
    Returned =>
        LET old == oldPod.Conditions
            new == newPod.Conditions
            msgs == SelectSeq(reason.reasons, IsConditionMessage)
            Changed(i) == /\ FirstOfType(old, new[i].Type) # 0
                          /\ old[FirstOfType(old, new[i].Type)].Status #
                                new[i].Status
            IsNew(i) == \A k \in 1..Len(old) : old[k].Type # new[i].Type
        IN /\ \A c \in PodConditions :
                 (\E j \in 1..Len(msgs) :
                     msgs[j] = ConditionChangedMessage(c.Type, c.Status))
                 <=> (\E i \in 1..Len(new) : new[i] = c /\ Changed(i))
           /\ \A c \in PodConditions :
                 (\E j \in 1..Len(msgs) :
                     msgs[j] = NewConditionMessage(c.Type, c.Status))
                 <=> (\E i \in 1..Len(new) : new[i] = c /\ IsNew(i))
           /\ Len(msgs) =
                 Cardinality({i \in 1..Len(new) : Changed(i) \/ IsNew(i)})

\* C20 witness: the old list holds two Ready conditions, False first; the
\* new list's Ready = True is compared with the first one only, its
\* PodScheduled is new.
C20_Witness ==
    /\ Returned
    /\ oldPod.Conditions = <<[Type |-> "Ready", Status |-> "False"],
                             [Type |-> "Ready", Status |-> "True"]>>
    /\ newPod.Conditions = <<[Type |-> "Ready", Status |-> "True"],
                             [Type |-> "PodScheduled", Status |-> "True"]>>
    /\ reason.reasons = <<"Condition Ready changed to True",
                          "New condition PodScheduled: True">>

\* The JSON records among the lines written for the last notification.
RecordsIn(lines) == SelectSeq(lines, LAMBDA l : l.kind = "json")

\* C22: an ADDED notification for a Pod whose UID is not in existingPods
\* produces exactly one lifecycle event, of type ADDED, with the Pod's phase
\* and the message "New pod created", and raises the activePods gauge of
\* that phase by one.
C22_Claim ==
    [][(/\ watchPods_Receive
        /\ IsPodNotification(Head(stream))
        /\ Head(stream).type = "ADDED"
        /\ Head(stream).object.uid \notin DOMAIN existingPods)
       => LET pod == Head(stream).object
              records == RecordsIn(logged')
          IN /\ Len(records) = 1
             /\ records[1].event.EventType = "ADDED"
             /\ records[1].event.Phase = pod.phase
             /\ records[1].event.Message = "New pod created"
             /\ GaugeValue(activePods', pod.phase) =
                  GaugeValue(activePods, pod.phase) + 1]_vars

\* C23: when the MODIFIED notification that watchPods processed last is
\* received once more, podTracker and every activePods gauge stay as the
\* first processing left them.
C23_RepeatedModifiedChangesNothing ==
    [][(/\ watchPods_Receive
        /\ IsPodNotification(event)
        /\ event.type = "MODIFIED"
        /\ Head(stream) = event)
       => UNCHANGED <<podTracker, activePods>>]_vars

\* The MODIFIED notification of a tracked Pod was processed and is the next
\* event of the stream again.
C23_Witness ==
    /\ pc = "select"
    /\ IsPodNotification(event)
    /\ event.type = "MODIFIED"
    /\ stream # <<>>
    /\ Head(stream) = event
    /\ event.object.name \in DOMAIN podTracker
    /\ podTracker[event.object.name] = event.object.phase
    /\ GaugeValue(activePods, event.object.phase) = 1

FatalCauses ==
    {"ceiling"} \cup
    {call \o cause : call \in {"connect", "list", "watch"},
                     cause \in {": api error", ": context canceled"}}

\* C25: when json.Marshal fails in logEvent the error line is written and
\* nothing else of the event (no record, no summary, podTracker and the
\* gauges as before); watchPods handles the notification to the end (the
\* snapshot map and the retry counter as after any notification), stays
\* in its select loop with the stream as it was, and the process keeps
\* running. A fatal exit has one of the causes of watchPods and Start, none
\* of which is an encoding error.
C25_MarshalFailureIsNotFatal ==
    /\ [][watchPods_ReceiveDropped =>
            /\ logged' = <<MarshalErrorLine>>
            /\ UNCHANGED <<podTracker, activePods>>
            /\ existingPods' = HandleEvent(existingPods, Head(stream))
            /\ retryCount' = 0
            /\ stream' = Tail(stream)
            /\ pc' = "select"
            /\ UNCHANGED <<watchOpen, unstopped, watcherReconnects>>
            /\ exit' = "running"
            /\ err' = "none"]_vars
    /\ [](exit = "fatal" => err \in FatalCauses)

\* An event was dropped for an encoding error, watchPods is in its select
\* loop and the next notification is waiting in the stream.
C25_Witness ==
    /\ logged = <<MarshalErrorLine>>
    /\ pc = "select"
    /\ exit = "running"
    /\ stream # <<>>
    /\ IsPodNotification(Head(stream))

\* C24: in the log every JSON record is directly followed by the summary
\* line of its own event, every summary line directly follows the record
\* of its event, and logEvent does not return between the two: no line of
\* another event comes between them, and the summary never comes first.
C24_RecordBeforeSummary ==
    \A i \in 1..Len(logged) :
        /\ logged[i].kind = "summary" =>
              /\ i > 1
              /\ logged[i - 1].kind = "json"
              /\ logged[i].text = SummaryText(logged[i - 1].event)
        /\ logged[i].kind = "json" =>
              IF i < Len(logged)
              THEN logged[i + 1].kind = "summary"
              ELSE emitpc \notin {"idle", "marshal"}
                   /\ logged[i].event = emitting

\* Two different events were emitted, one after the other.
C24_Witness ==
    /\ emitpc = "idle"
    /\ Len(logged) = 4
    /\ logged[1].kind = "json"
    /\ logged[2].kind = "summary"
    /\ logged[3].kind = "json"
    /\ logged[4].kind = "summary"
    /\ logged[1].event # logged[3].event
    /\ logged[2].text # logged[4].text

\* C28: pm.podTracker is written (logEvent's update) and read
\* (updateActivePods) only in steps that begin and end with the consumer
\* holding pm.trackerMutex, and no other step changes it; at most one task
\* holds the mutex; and whenever logEvent is not running, whichever way it
\* returned, the mutex is free.
C28_TrackerOnlyUnderMutex ==
    /\ [][(logEvent_Write \/ logEvent_UpdateActivePods) =>
            ("consumer" \in trackerMutex /\ "consumer" \in trackerMutex')]_vars
    /\ [][(podTracker' # podTracker) => logEvent_Write]_vars
    /\ [](Cardinality(trackerMutex) <= 1)
    /\ [](emitpc = "idle" => trackerMutex = {})

\* A call of logEvent wrote podTracker and returned, and one that failed to
\* encode its event returned as well.
C28_Witness ==
    /\ emitpc = "idle"
    /\ trackerMutex = {}
    /\ podTracker # EmptyMap
    /\ Len(logged) = 3
    /\ logged[3].kind = "error"

\* C27: whenever watchPods waits in its select on an open stream that
\* holds nothing and the signal goroutine has closed pm.stopCh, watchPods
\* returns in the end, whether or not an event ever arrives.
C27_ShutdownLeavesTheWait ==
    (pc = "select" /\ watchOpen /\ stream = <<>> /\ stopChClosed)
        ~> (pc = "done")

\* watchPods returned nil on a signal that came during a session in which
\* the stream never carried an event.
C27_Witness ==
    /\ pc = "done"
    /\ err = "nil"
    /\ sigAt = "session"
    /\ cluster = EmptyMap
    /\ event = NoEvent
    /\ watcherReconnects = 0
    /\ metricsServer

\* watchPods has issued Pods(pm.namespace).List and gone on.
Listed == pc \in {"watch", "select", "backoff"}

\* C29: when NAMESPACE is empty the List and the Watch are issued for the
\* Pods of all namespaces (pm.namespace is metav1.NamespaceAll).
C29_Claim == (envNamespace = "" /\ Listed) => namespace = NamespaceAll

\* C30: a process started with --health-check probes the API once and
\* exits; it never issues a List or a Watch and never sleeps in a backoff.
C30_Claim == ("--health-check" \in {args[i] : i \in DOMAIN args}) => ~Listed

\* C31: a MODIFIED notification for a UID in existingPods replaces the
\* entry of that UID with the notification's object and touches no other
\* entry; when the notification processed just before was a MODIFIED of
\* the same Pod, the reason is the one of the change from that
\* notification's object; and every entry is stored under the UID of its
\* own Pod, so a Pod has one entry.
C31_ModifiedReplacesSnapshot ==
    /\ [][(/\ watchPods_Receive
            /\ IsPodNotification(Head(stream))
            /\ Head(stream).type = "MODIFIED"
            /\ Head(stream).object.uid \in DOMAIN existingPods)
           => LET pod == Head(stream).object
              IN /\ existingPods' = [existingPods EXCEPT ![pod.uid] = pod]
                 /\ (/\ IsPodNotification(event)
                     /\ event.type = "MODIFIED"
                     /\ event.object.uid = pod.uid)
                    => RecordsIn(logged')[1].event.Reason =
                         getChangeReason(StatusOf(event.object),
                                         StatusOf(pod))]_vars
    /\ [](\A u \in DOMAIN existingPods : existingPods[u].uid = u)

\* A Pod first seen in Pending was reported Running by a MODIFIED, which
\* was processed, and a second MODIFIED of it is the next event.
C31_Witness ==
    /\ pc = "select"
    /\ IsPodNotification(event)
    /\ event.type = "MODIFIED"
    /\ event.object.phase = "Running"
    /\ Len(logged) = 2
    /\ logged[1].event.Reason = "Phase changed from Pending to Running"
    /\ stream # <<>>
    /\ Head(stream) = Event("MODIFIED", Pod(event.object.uid, "Pending"))
    /\ existingPods[event.object.uid] = event.object

\* C32: a watch.Error notification, or one whose object is not a Pod, is
\* skipped without any other effect: no line of a lifecycle event is
\* written and the events counter is not stepped; existingPods, podTracker
\* and the gauges stay as they are; the monitor's reconnect state stays as
\* it is; the watcher stays open and watchPods stays in its select loop.
C32_Claim ==
    [][(/\ watchPods_Receive
        /\ (Head(stream).type = "ERROR" \/ Head(stream).object.kind # "Pod"))
       => /\ logged' = <<>>
          /\ podEventsTotal' = NoCounts
          /\ UNCHANGED <<existingPods, podTracker, activePods>>
          /\ UNCHANGED <<retryCount, watcherReconnects>>
          /\ UNCHANGED <<watchOpen, unstopped>>
          /\ pc' = "select"
          /\ exit' = "running"]_vars

\* C33: reconnecting does not nest: the watcher of the previous session is
\* stopped before the next session registers its own, so at most one
\* watcher is registered and not yet stopped at any time.
C33_Claim == unstopped <= 1

\* The value of one series of podEventsTotal; a series never stepped has
\* none, which reads as 0.
CounterValue(c, l) == IF l \in DOMAIN c THEN c[l] ELSE 0

\* The number of JSON records among the lines whose event has the labels l.
RecordsLabelled(lines, l) ==
    Len(SelectSeq(lines, LAMBDA x : x.kind = "json" /\ CounterLabels(x.event) = l))

\* The label triples a lifecycle event of this monitor can have.
AllCounterLabels == {<<namespace, t, ph>> : t \in PodEventTypes, ph \in Phases}

C35_Claim ==
    pc \in {"watch", "select"} =>
        GaugeValue(activePods, "Pending") + GaugeValue(activePods, "Running")
            = Cardinality(DOMAIN existingPods)

\* C36: pm.retryCount is a field of the monitor: it goes down only when a
\* notification is received, never when a session lists or registers its
\* watch; every closure of the channel raises it by one; and when it
\* reaches maxRetries watchPods has returned the ceiling error and the
\* process exits with it.
C36_CounterOutlivesSessions ==
    /\ [][(retryCount' < retryCount) => watchPods_Receive]_vars
    /\ [][watchPods_ChannelClosed => retryCount' = retryCount + 1]_vars
    /\ [](retryCount >= maxRetries
            => (pc = "done" /\ err = "ceiling" /\ exit = "fatal"))

\* maxRetries closures, each but the last followed by a session whose List
\* and Watch succeeded, and no notification ever received: the ceiling
\* error.
C36_Witness ==
    /\ pc = "done"
    /\ err = "ceiling"
    /\ retryCount = maxRetries
    /\ watcherReconnects = maxRetries
    /\ closuresSinceSuccess = maxRetries
    /\ cluster # EmptyMap

\* C40: watcherReconnects goes up by exactly one at every closure of the
\* watch channel, the one that reaches the ceiling included, and nothing
\* else changes it, a received notification in particular; it is never
\* below pm.retryCount nor below the closures since the last Pod
\* notification, and a process that ended with the ceiling error has
\* counted at least maxRetries closures.
C40_ReconnectsCountClosures ==
    /\ [][watchPods_ChannelClosed
            => watcherReconnects' = watcherReconnects + 1]_vars
    /\ [][(watcherReconnects' # watcherReconnects)
            => watchPods_ChannelClosed]_vars
    /\ [](watcherReconnects >= closuresSinceSuccess)
    /\ [](watcherReconnects >= retryCount)
    /\ [](err = "ceiling" => watcherReconnects >= maxRetries)

\* One closure, a notification that reset pm.retryCount, then maxRetries
\* closures in a row: the metric reads maxRetries + 1 at the ceiling error.
C40_Witness ==
    /\ pc = "done"
    /\ err = "ceiling"
    /\ retryCount = maxRetries
    /\ watcherReconnects = maxRetries + 1

\* C37: an ADDED notification for a Pod whose UID is in existingPods writes
\* no line and steps no counter, leaves existingPods (the stored object
\* included), podTracker and the gauges as they are and watchPods in its
\* select loop; pm.retryCount is 0 after it.
C37_KnownAddedOnlyResets ==
    [][(/\ watchPods_Receive
        /\ IsPodNotification(Head(stream))
        /\ Head(stream).type = "ADDED"
        /\ Head(stream).object.uid \in DOMAIN existingPods)
       => /\ logged' = <<>>
          /\ podEventsTotal' = NoCounts
          /\ UNCHANGED <<existingPods, podTracker, activePods>>
          /\ UNCHANGED <<pc, err, exit, watchOpen, unstopped,
                         watcherReconnects>>
          /\ retryCount' = 0]_vars

\* After a reconnect the ADDED of a listed Pod was replayed, in a phase
\* other than the stored one: nothing was written, the stored object is
\* the listed one, the counter went from 1 to 0.
C37_Witness ==
    /\ pc = "select"
    /\ IsPodNotification(event)
    /\ event.type = "ADDED"
    /\ event.object.uid \in DOMAIN existingPods
    /\ existingPods[event.object.uid] # event.object
    /\ logged = <<>>
    /\ retryBefore = 1
    /\ retryCount = 0

\* C38: the List of a session, a re-opened one included, takes the Pods as
\* they are now into existingPods and writes nothing, whatever changed
\* since the previous session; the watch registered after it starts with
\* ADDED events only, and an ADDED event is emitted only for a Pod that is
\* not in existingPods; so a change made while no watch was open never
\* shows as a MODIFIED or DELETED lifecycle event.
C38_ReListAbsorbsChanges ==
    /\ [][(watchPods_List /\ pc' = "watch")
            => /\ existingPods' = cluster
               /\ UNCHANGED <<logged, podEventsTotal, podTracker, activePods>>]_vars
    /\ [][(watchPods_Watch /\ pc' = "select")
            => \A i \in 1..Len(stream') :
                  /\ stream'[i].type = "ADDED"
                  /\ stream'[i].object = cluster[stream'[i].object.uid]]_vars
    /\ [][(/\ watchPods_Receive
            /\ Head(stream).type = "ADDED"
            /\ logged' # <<>>)
            => Head(stream).object.uid \notin DOMAIN existingPods]_vars

\* A re-opened session has just listed the Pod p1 in phase Running, which
\* the last lifecycle event of p1 reported as Pending: the change was made
\* while no watch was open and nothing was written for it.
C38_Witness ==
    /\ pc = "watch"
    /\ retryCount = 1
    /\ event = NoEvent
    /\ logged = <<>>
    /\ "u1" \in DOMAIN existingPods
    /\ existingPods["u1"].phase = "Running"
    /\ "p1" \in DOMAIN podTracker
    /\ podTracker["p1"] = "Pending"
    /\ trackedUID["p1"] = "u1"

\* C39: a DELETED notification for a Pod whose UID is not in existingPods
\* writes exactly one JSON record, of type DELETED with the message "Pod
\* deleted" and the Pod's name and phase, leaves existingPods as it is, and
\* watchPods stays in its select loop on the same watcher with no error.
C39_UnknownDeletedIsLogged ==
    [][(/\ watchPods_Receive
        /\ IsPodNotification(Head(stream))
        /\ Head(stream).type = "DELETED"
        /\ Head(stream).object.uid \notin DOMAIN existingPods)
       => LET pod == Head(stream).object
              records == RecordsIn(logged')
          IN /\ Len(records) = 1
             /\ records[1].event.EventType = "DELETED"
             /\ records[1].event.Message = "Pod deleted"
             /\ records[1].event.PodName = pod.name
             /\ records[1].event.Phase = pod.phase
             /\ UNCHANGED existingPods
             /\ UNCHANGED <<pc, err, exit, watchOpen, unstopped>>
             /\ pc = "select"]_vars

\* The DELETED of the Pod u2, which never was in the cluster, was processed
\* in a session that holds the Pod u1: one record, u1 still stored.
C39_Witness ==
    /\ pc = "select"
    /\ exit = "running"
    /\ event = Event("DELETED", Pod("u2", "Running"))
    /\ Len(RecordsIn(logged)) = 1
    /\ RecordsIn(logged)[1].event.Message = "Pod deleted"
    /\ DOMAIN existingPods = {"u1"}


====
